---- MODULE Spec2Model ----
(***************************************************************************)
(* Model of ViaStitching/keepout_checker.py: the KeepOutChecker class      *)
(* (zone collection at construction, the point-in-zone test, the           *)
(* is_via_allowed predicate, get_zone_count) and the free function         *)
(* is_via_allowed_at_position, over a model of the pcbnew host objects     *)
(* (board, footprints, zones) they query.                                  *)
(*                                                                         *)
(* Every call made to the host is appended to a log together with its      *)
(* outcome; a host call may raise.  Which calls raise is an input of each  *)
(* operation (a fault plan): the call number `at` raises, and with         *)
(* `sticky` every later call raises as well (at = 0: no call raises).      *)
(***************************************************************************)
EXTENDS Integers, Sequences, FiniteSets, TLC

(***************************************************************************)
(* Bounds of the model.                                                    *)
(***************************************************************************)
MaxAreas == 2          \* board-level areas on a board
MaxFootprints == 2     \* footprints on a board
MaxFpZones == 1        \* zones owned by one footprint
MaxCoord == 1          \* |x|, |y| of a candidate position
MaxViaSize == 4        \* largest via diameter tried
MaxFaultAt == 7        \* latest host call of an operation that is made to raise
MaxEdits == 1          \* board edits after the checker was constructed
PCB_LAYER_ID_COUNT == 2    \* pcbnew.PCB_LAYER_ID_COUNT, cut down to the model's layers

PCBNEW_LAYER_ID_START == 0 \* pcbnew.PCBNEW_LAYER_ID_START

VARIABLES
    areas,          \* host: the board's areas, GetArea(i) = areas[i + 1]
    footprints,     \* host: the board's footprints, each the sequence of its zones
    ruleArea,       \* host: the zones whose GetIsRuleArea() is true
    noVias,         \* host: the zones whose GetDoNotAllowVias() is true
    hasGetModules,  \* host: whether the board still has the older GetModules accessor
    constructed,    \* whether the checker exists (its __init__ has returned)
    debug,          \* self.debug
    keepout_zones,  \* self.keepout_zones
    scanned,        \* history: the board as it was when the checker was constructed
    edits,          \* history: the number of board edits since then
    last            \* the call that has just returned: arguments, result, host-call log

board == <<areas, footprints, ruleArea, noVias, hasGetModules>>
checker == <<constructed, debug, keepout_zones>>
vars == <<areas, footprints, ruleArea, noVias, hasGetModules,
          constructed, debug, keepout_zones, scanned, edits, last>>

(***************************************************************************)
(* The host's zones.  Flags are state (ruleArea, noVias); the layer set    *)
(* and the filled area of each zone are fixed.                             *)
(***************************************************************************)
ZoneIds == {1, 2, 3}

LayerIds == PCBNEW_LAYER_ID_START .. (PCBNEW_LAYER_ID_START + PCB_LAYER_ID_COUNT - 1)

\* zone.GetLayerSet(): the layers the zone occupies
GetLayerSet(z) ==
    CASE z = 1 -> {0}
      [] z = 2 -> {1}
      [] OTHER -> {0, 1}

\* zone.HitTestFilledArea(layer, point): the host answers for any layer asked,
\* whether or not the zone's layer set holds it
HitTestFilledArea(z, layer, p) ==
    CASE z = 1 -> layer = 0 /\ p[1] >= 2
      [] z = 2 -> (layer = 0) \/ (layer = 1 /\ p[2] <= -2)
      [] OTHER -> (layer = 0 /\ p[1] <= -1 /\ p[2] >= 1)
                  \/ (layer >= 1 /\ p[1] = 0 /\ p[2] = 0)

(***************************************************************************)
(* Host calls, exceptions and the log.                                     *)
(***************************************************************************)
NoPoint == <<>>
NoFault == [at |-> 0, sticky |-> FALSE]
Ctx0 == [log |-> <<>>, n |-> 0, exc |-> FALSE]

Entry(op, z, l, p, k, j, out) ==
    [op |-> op, z |-> z, l |-> l, p |-> p, k |-> k, j |-> j, out |-> out]

PyBool(b) == IF b THEN "True" ELSE "False"

\* whether host call number n raises under the plan
Raises(plan, n) ==
    plan.at > 0 /\ (n = plan.at \/ (plan.sticky /\ n > plan.at))

\* One call to the host: logged with its result, or with "raise" when it raises.
\* k, j locate the call in is_via_allowed (test point k, cache index j).
Host(plan, ctx, op, z, l, p, k, j, out) ==
    LET n == ctx.n + 1
        r == Raises(plan, n)
    IN  [log |-> Append(ctx.log, Entry(op, z, l, p, k, j, IF r THEN "raise" ELSE out)),
         n   |-> n,
         exc |-> r]

\* a call on a board that is None: AttributeError
HostOnNone(ctx, op) ==
    [log |-> Append(ctx.log, Entry(op, 0, -1, NoPoint, -1, 0, "raise")),
     n   |-> ctx.n + 1,
     exc |-> TRUE]

\* print(...), only when self.debug
DebugPrint(dbg, ctx, msg, v) ==
    IF dbg
    THEN [ctx EXCEPT !.log = Append(@, Entry("print", 0, v, NoPoint, -1, 0, msg))]
    ELSE ctx

Caught(ctx) == [ctx EXCEPT !.exc = FALSE]

(***************************************************************************)
(* KeepOutChecker._collect_keepout_zones                                   *)
(*                                                                         *)
(* Each statement that follows a host call is an operator of its own,      *)
(* taking the call's outcome (the context c, or the state st = context +   *)
(* zones appended so far) as its last parameter.  c.exc says the call      *)
(* raised: every statement then passes the exception on, up to the except  *)
(* clause of the method.                                                   *)
(***************************************************************************)
\* Variant of FilterVias that appends a zone only if the list does not hold it yet.
FilterViasOnce(dbg, zones, zone, msg, i, c) ==
    IF c.exc \/ zone \notin noVias \/ (\E n \in 1..Len(zones) : zones[n] = zone)
    THEN [ctx |-> c, zones |-> zones]
    ELSE [ctx |-> DebugPrint(dbg, c, msg, i), zones |-> Append(zones, zone)]

\* ... and zone.GetDoNotAllowVias(): zones.append(zone), print when debug
FilterVias(dbg, zones, zone, msg, i, c) ==
    IF c.exc \/ zone \notin noVias
    THEN [ctx |-> c, zones |-> zones]
    ELSE [ctx |-> DebugPrint(dbg, c, msg, i), zones |-> Append(zones, zone)]

\* if zone.GetIsRuleArea() and ...   (and short-circuits)
FilterRule(plan, dbg, zones, zone, msg, i, c) ==
    IF c.exc \/ zone \notin ruleArea
    THEN [ctx |-> c, zones |-> zones]
    ELSE FilterVias(dbg, zones, zone, msg, i,
                    Host(plan, c, "GetDoNotAllowVias", zone, -1, NoPoint, -1, 0,
                         PyBool(zone \in noVias)))

\* if zone.GetIsRuleArea() and zone.GetDoNotAllowVias(): zones.append(zone)
FilterZone(plan, dbg, st, zone, msg, i) ==
    FilterRule(plan, dbg, st.zones, zone, msg, i,
               Host(plan, st.ctx, "GetIsRuleArea", zone, -1, NoPoint, -1, 0,
                    PyBool(zone \in ruleArea)))

RECURSIVE CollectAreas(_, _, _, _, _)
\* the next iteration of the loop over the areas, unless the filter raised
AreaFiltered(plan, dbg, i, count, st) ==
    IF st.ctx.exc THEN st ELSE CollectAreas(plan, dbg, st, i + 1, count)

\* zone = self.board.GetArea(i), then the filter
AreaFetched(plan, dbg, zones, i, count, c) ==
    IF c.exc
    THEN [ctx |-> c, zones |-> zones]
    ELSE AreaFiltered(plan, dbg, i, count,
                      FilterZone(plan, dbg, [ctx |-> c, zones |-> zones],
                                 areas[i + 1], "Added board keep-out zone", i))

\* for i in range(count): ...   (from index i on)
CollectAreas(plan, dbg, st, i, count) ==
    IF i >= count
    THEN st
    ELSE AreaFetched(plan, dbg, st.zones, i, count,
                     Host(plan, st.ctx, "GetArea", areas[i + 1], i, NoPoint, -1, 0, "ok"))

RECURSIVE CollectFootprintZones(_, _, _, _, _)
\* the next zone of footprint f, unless the filter raised
FootprintZoneFiltered(plan, dbg, f, m, st) ==
    IF st.ctx.exc THEN st ELSE CollectFootprintZones(plan, dbg, st, f, m + 1)

\* for zone in footprint.Zones(): ...   (from the m-th zone of footprint f on)
CollectFootprintZones(plan, dbg, st, f, m) ==
    IF m > Len(footprints[f])
    THEN st
    ELSE FootprintZoneFiltered(plan, dbg, f, m,
                               FilterZone(plan, dbg, st, footprints[f][m],
                                          "Added footprint keep-out zone", -1))

RECURSIVE CollectFootprints(_, _, _, _)
\* the next footprint, unless a call on this one raised
FootprintDone(plan, dbg, f, st) ==
    IF st.ctx.exc THEN st ELSE CollectFootprints(plan, dbg, st, f + 1)

\* footprint.Zones(), then the loop over its zones
FootprintZonesFetched(plan, dbg, zones, f, c) ==
    IF c.exc
    THEN [ctx |-> c, zones |-> zones]
    ELSE FootprintDone(plan, dbg, f,
                       CollectFootprintZones(plan, dbg, [ctx |-> c, zones |-> zones], f, 1))

\* for footprint in footprints: ...   (from the f-th footprint on)
CollectFootprints(plan, dbg, st, f) ==
    IF f > Len(footprints)
    THEN st
    ELSE FootprintZonesFetched(plan, dbg, st.zones, f,
                               Host(plan, st.ctx, "Zones", 0, f, NoPoint, -1, 0, "ok"))

\* Variant of CollectExcept that returns an empty list after an exception.
CollectExceptEmpty(dbg, st) ==
    IF st.ctx.exc
    THEN [ctx |-> DebugPrint(dbg, Caught(st.ctx), "Error collecting zones", -1),
          zones |-> <<>>]
    ELSE st

\* except Exception as e: print when debug; return zones
CollectExcept(dbg, st) ==
    IF st.ctx.exc
    THEN [ctx |-> DebugPrint(dbg, Caught(st.ctx), "Error collecting zones", -1),
          zones |-> st.zones]
    ELSE st

\* footprints = self.board.GetModules() or GetFootprints(), then the loop over them
FootprintsFetched(plan, dbg, zones, c) ==
    CollectExcept(dbg, IF c.exc
                       THEN [ctx |-> c, zones |-> zones]
                       ELSE CollectFootprints(plan, dbg, [ctx |-> c, zones |-> zones], 1))

\* if hasattr(self.board, 'GetModules'): ... else: ...
AreasDone(plan, dbg, st) ==
    IF st.ctx.exc
    THEN CollectExcept(dbg, st)
    ELSE FootprintsFetched(plan, dbg, st.zones,
                           Host(plan, st.ctx,
                                IF hasGetModules THEN "GetModules" ELSE "GetFootprints",
                                0, -1, NoPoint, -1, 0, "ok"))

\* range(self.board.GetAreaCount()), then the loop over the areas
AreaCountFetched(plan, dbg, c) ==
    AreasDone(plan, dbg, IF c.exc
                         THEN [ctx |-> c, zones |-> <<>>]
                         ELSE CollectAreas(plan, dbg, [ctx |-> c, zones |-> <<>>],
                                           0, Len(areas)))

\* The whole method: zones = [], the try block, the except clause, return zones.
\* boardOk: self.board is a board, not None.
collect_keepout_zones(plan, dbg, boardOk, ctx0) ==
    AreaCountFetched(plan, dbg,
                     IF boardOk
                     THEN Host(plan, ctx0, "GetAreaCount", 0, Len(areas), NoPoint, -1, 0, "ok")
                     ELSE HostOnNone(ctx0, "GetAreaCount"))

\* if self.debug and len(self.keepout_zones) > 0: print(...)
CheckerBuilt(dbg, st) ==
    [keepout_zones |-> st.zones,
     debug |-> dbg,
     ctx |-> IF Len(st.zones) > 0
             THEN DebugPrint(dbg, st.ctx, "Found keep-out zone(s)", Len(st.zones))
             ELSE st.ctx]

\* KeepOutChecker.__init__: the new object's fields, and the log of its calls
KeepOutChecker(plan, dbg, boardOk, ctx0) ==
    CheckerBuilt(dbg, collect_keepout_zones(plan, dbg, boardOk, ctx0))

(***************************************************************************)
(* Positions.  A VECTOR2I holds integer coordinates x, y.  A position that *)
(* is not a VECTOR2I ("compatible": anything with .x and .y) may hold      *)
(* float coordinates; its x and y are given here in half units.            *)
(***************************************************************************)
Vec(x, y) == [isVECTOR2I |-> TRUE, x |-> x, y |-> y]
Compatible(hx, hy) == [isVECTOR2I |-> FALSE, x |-> hx, y |-> hy]

\* int(v) of the float v = h / 2: truncation toward zero
PyInt(h) == IF h >= 0 THEN h \div 2 ELSE -((-h) \div 2)

\* pcbnew.VECTOR2I(int(point.x), int(point.y)), as the pair of its coordinates
ToVECTOR2I(point) ==
    IF point.isVECTOR2I THEN <<point.x, point.y>>
    ELSE <<PyInt(point.x), PyInt(point.y)>>

(***************************************************************************)
(* KeepOutChecker._is_point_in_zone                                        *)
(***************************************************************************)
RECURSIVE TestLayers(_, _, _, _, _, _, _)
\* if zone.HitTestFilledArea(layer_id, point): return True
LayerHitTested(plan, zone, p, layer_id, k, j, c) ==
    IF c.exc THEN [ret |-> FALSE, ctx |-> c]
    ELSE IF HitTestFilledArea(zone, layer_id, p) THEN [ret |-> TRUE, ctx |-> c]
    ELSE TestLayers(plan, c, zone, p, layer_id + 1, k, j)

\* Variant of LayerContainsTested that hit-tests the layer whatever Contains answered.
LayerContainsIgnored(plan, zone, p, layer_id, k, j, c) ==
    IF c.exc THEN [ret |-> FALSE, ctx |-> c]
    ELSE LayerHitTested(plan, zone, p, layer_id, k, j,
                        Host(plan, c, "HitTestFilledArea", zone, layer_id, p, k, j,
                             PyBool(HitTestFilledArea(zone, layer_id, p))))

\* if layer_set.Contains(layer_id): ...
LayerContainsTested(plan, zone, p, layer_id, k, j, c) ==
    IF c.exc THEN [ret |-> FALSE, ctx |-> c]
    ELSE IF layer_id \notin GetLayerSet(zone)
    THEN TestLayers(plan, c, zone, p, layer_id + 1, k, j)
    ELSE LayerHitTested(plan, zone, p, layer_id, k, j,
                        Host(plan, c, "HitTestFilledArea", zone, layer_id, p, k, j,
                             PyBool(HitTestFilledArea(zone, layer_id, p))))

\* for layer_id in range(PCBNEW_LAYER_ID_START, PCBNEW_LAYER_ID_START + PCB_LAYER_ID_COUNT):
\* ...; return False   (from layer_id on)
TestLayers(plan, ctx, zone, p, layer_id, k, j) ==
    IF layer_id >= PCBNEW_LAYER_ID_START + PCB_LAYER_ID_COUNT
    THEN [ret |-> FALSE, ctx |-> ctx]
    ELSE LayerContainsTested(plan, zone, p, layer_id, k, j,
                             Host(plan, ctx, "Contains", zone, layer_id, NoPoint, k, j,
                                  PyBool(layer_id \in GetLayerSet(zone))))

\* layer_set = zone.GetLayerSet(), then the loop over the layers
LayerSetFetched(plan, zone, p, k, j, c) ==
    IF c.exc THEN [ret |-> FALSE, ctx |-> c]
    ELSE TestLayers(plan, c, zone, p, PCBNEW_LAYER_ID_START, k, j)

\* the point is a VECTOR2I now
PointConverted(plan, zone, p, k, j, c) ==
    IF c.exc THEN [ret |-> FALSE, ctx |-> c]
    ELSE LayerSetFetched(plan, zone, p, k, j,
                         Host(plan, c, "GetLayerSet", zone, -1, NoPoint, k, j, "ok"))

\* Variant of PointTestExcept that returns True after an exception.
PointTestExceptHit(dbg, r) ==
    IF r.ctx.exc
    THEN [ret |-> TRUE, ctx |-> DebugPrint(dbg, Caught(r.ctx), "Error in point test", -1)]
    ELSE r

\* except Exception as e: print when debug; return False
PointTestExcept(dbg, r) ==
    IF r.ctx.exc
    THEN [ret |-> FALSE, ctx |-> DebugPrint(dbg, Caught(r.ctx), "Error in point test", -1)]
    ELSE r

\* The whole method: the try block, then the except clause.
is_point_in_zone(plan, dbg, ctx, zone, point, k, j) ==
    PointTestExcept(dbg,
        PointConverted(plan, zone, ToVECTOR2I(point), k, j,
                       IF point.isVECTOR2I
                       THEN ctx
                       ELSE Host(plan, ctx, "VECTOR2I", 0, -1, ToVECTOR2I(point), k, j, "ok")))

(***************************************************************************)
(* The edge samples: int(c + via_radius * math.cos(angle_rad)) and the     *)
(* same with math.sin, in IEEE double arithmetic.  For an integer center   *)
(* coordinate c and radius r the float result is determined as follows.    *)
(*   cos, sin = 1.0 or -1.0 (0, 90, 180, 270 degrees): c + r, c - r.       *)
(*   cos, sin = +-0.7071067811865475..7: c +- r/sqrt(2), never a whole     *)
(*     number for r > 0; int() truncates toward zero.                      *)
(*   sin(0) = 0.0 exactly.  But cos(pi/2) = 6.123e-17, sin(pi) = 1.225e-16 *)
(*     and cos(3pi/2) = -1.837e-16 are not zero: c + r * tiny rounds to c  *)
(*     or, when r * tiny exceeds half the spacing of the doubles next to   *)
(*     c on the side of zero, to the neighbouring double, which int()      *)
(*     truncates to the next integer toward zero.                          *)
(***************************************************************************)
RECURSIVE Pow2Ceil(_, _)
\* the smallest power of two >= a, from p on   (a >= 1)
Pow2Ceil(a, p) == IF p >= a THEN p ELSE Pow2Ceil(a, 2 * p)

Abs(c) == IF c >= 0 THEN c ELSE -c

RECURSIVE FloorDiag(_, _)
\* floor(r / sqrt(2)): the largest t >= t0 with 2 t^2 <= r^2
FloorDiag(r, t) == IF 2 * (t + 1) * (t + 1) <= r * r THEN FloorDiag(r, t + 1) ELSE t

\* int(c + r * (+-1.0))
AddUnit(c, r, sign) == c + sign * r

\* int(c + r * (+-0.7071...))
AddDiag(c, r, sign) ==
    LET t == FloorDiag(r, 0)
    IN  IF r = 0 THEN c
        ELSE IF sign > 0
        THEN (IF c + t >= 0 THEN c + t ELSE c + t + 1)
        ELSE (IF c - t >= 1 THEN c - t - 1 ELSE c - t)

\* int(c + r * (sign * m * 6.123233995736766e-17)), m = 1, 2, 3.
\* m * r * 6.1232e-17 > Pow2Ceil(|c|) * 2^-54  iff  1103 * m * r > 1000 * Pow2Ceil(|c|)
AddTiny(c, r, m, sign) ==
    IF r = 0 \/ c = 0 THEN c
    ELSE LET carry == 1103 * m * r > 1000 * Pow2Ceil(Abs(c), 1)
         IN  IF sign > 0
             THEN (IF c < 0 /\ carry THEN c + 1 ELSE c)
             ELSE (IF c > 0 /\ carry THEN c - 1 ELSE c)

\* edge_x for the a-th angle of [0, 45, 90, 135, 180, 225, 270, 315], a = 1..8
EdgeX(x, r, a) ==
    CASE a = 1 -> AddUnit(x, r, 1)
      [] a = 2 -> AddDiag(x, r, 1)
      [] a = 3 -> AddTiny(x, r, 1, 1)
      [] a = 4 -> AddDiag(x, r, -1)
      [] a = 5 -> AddUnit(x, r, -1)
      [] a = 6 -> AddDiag(x, r, -1)
      [] a = 7 -> AddTiny(x, r, 3, -1)
      [] OTHER -> AddDiag(x, r, 1)

\* edge_y for the a-th angle
EdgeY(y, r, a) ==
    CASE a = 1 -> y
      [] a = 2 -> AddDiag(y, r, 1)
      [] a = 3 -> AddUnit(y, r, 1)
      [] a = 4 -> AddDiag(y, r, 1)
      [] a = 5 -> AddTiny(y, r, 2, 1)
      [] a = 6 -> AddDiag(y, r, -1)
      [] a = 7 -> AddUnit(y, r, -1)
      [] OTHER -> AddDiag(y, r, -1)

NumAngles == 8   \* len([0, 45, 90, 135, 180, 225, 270, 315])

(***************************************************************************)
(* KeepOutChecker.is_via_allowed                                           *)
(***************************************************************************)
RECURSIVE TestZones(_, _, _, _, _, _, _)
\* Variant of ZoneTested that remembers a hit but goes on to the remaining zones.
ZoneTestedToTheEnd(plan, dbg, cache, p, k, j, r) ==
    IF r.ret
    THEN [hit |-> TRUE, ctx |-> TestZones(plan, dbg, r.ctx, cache, p, k, j + 1).ctx]
    ELSE TestZones(plan, dbg, r.ctx, cache, p, k, j + 1)

\* if self._is_point_in_zone(zone, p): return False
ZoneTested(plan, dbg, cache, p, k, j, r) ==
    IF r.ret
    THEN [hit |-> TRUE, ctx |-> r.ctx]
    ELSE TestZones(plan, dbg, r.ctx, cache, p, k, j + 1)

\* for zone in self.keepout_zones: ...   (from cache index j on; k: the test point;
\* hit: the loop returned False from is_via_allowed)
TestZones(plan, dbg, ctx, cache, p, k, j) ==
    IF j > Len(cache)
    THEN [hit |-> FALSE, ctx |-> ctx]
    ELSE ZoneTested(plan, dbg, cache, p, k, j,
                    is_point_in_zone(plan, dbg, ctx, cache[j], Vec(p[1], p[2]), k, j))

RECURSIVE EdgeLoop(_, _, _, _, _, _, _)
\* the next angle, unless a zone holds this edge point
EdgeTested(plan, dbg, cache, pos, via_radius, a, r) ==
    IF r.hit
    THEN [ret |-> FALSE, ctx |-> r.ctx]
    ELSE EdgeLoop(plan, dbg, r.ctx, cache, pos, via_radius, a + 1)

\* edge_point = pcbnew.VECTOR2I(edge_x, edge_y), then the loop over the zones
EdgePointBuilt(plan, dbg, cache, pos, via_radius, a, edge_point, c) ==
    IF c.exc
    THEN [ret |-> TRUE, ctx |-> c]
    ELSE EdgeTested(plan, dbg, cache, pos, via_radius, a,
                    TestZones(plan, dbg, c, cache, edge_point, a, 1))

\* for angle_deg in [0, 45, ..., 315]: ...; return True   (from the a-th angle on)
EdgeLoop(plan, dbg, ctx, cache, pos, via_radius, a) ==
    IF a > NumAngles
    THEN [ret |-> TRUE, ctx |-> ctx]
    ELSE EdgePointBuilt(plan, dbg, cache, pos, via_radius, a,
                        <<EdgeX(pos[1], via_radius, a), EdgeY(pos[2], via_radius, a)>>,
                        Host(plan, ctx, "VECTOR2I", 0, -1,
                             <<EdgeX(pos[1], via_radius, a), EdgeY(pos[2], via_radius, a)>>,
                             a, 0, "ok"))

\* Variant of CenterTested that samples the edge whatever check_edges says.
CenterTestedAlwaysEdges(plan, dbg, cache, pos, via_size, check_edges, r) ==
    IF r.hit THEN [ret |-> FALSE, ctx |-> r.ctx]
    ELSE IF via_size > 0
    THEN EdgeLoop(plan, dbg, r.ctx, cache, pos, via_size \div 2, 1)
    ELSE [ret |-> TRUE, ctx |-> r.ctx]

\* if check_edges and via_size > 0: via_radius = via_size // 2 ...
CenterTested(plan, dbg, cache, pos, via_size, check_edges, r) ==
    IF r.hit THEN [ret |-> FALSE, ctx |-> r.ctx]
    ELSE IF check_edges /\ via_size > 0
    THEN EdgeLoop(plan, dbg, r.ctx, cache, pos, via_size \div 2, 1)
    ELSE [ret |-> TRUE, ctx |-> r.ctx]

\* the position is a VECTOR2I now: the loop over the zones for the center
PositionConverted(plan, dbg, cache, pos, via_size, check_edges, c) ==
    IF c.exc THEN [ret |-> TRUE, ctx |-> c]
    ELSE CenterTested(plan, dbg, cache, pos, via_size, check_edges,
                      TestZones(plan, dbg, c, cache, pos, 0, 1))

\* the try block of is_via_allowed; ctx.exc of the result says an exception left it
CheckPosition(plan, dbg, ctx, cache, position, via_size, check_edges) ==
    PositionConverted(plan, dbg, cache, ToVECTOR2I(position), via_size, check_edges,
                      IF position.isVECTOR2I
                      THEN ctx
                      ELSE Host(plan, ctx, "VECTOR2I", 0, -1, ToVECTOR2I(position),
                                0, 0, "ok"))

\* Variant of CheckExcept that returns False after an exception.
CheckExceptDeny(dbg, r) ==
    IF r.ctx.exc
    THEN [ret |-> FALSE,
          ctx |-> DebugPrint(dbg, Caught(r.ctx), "Error checking position", -1)]
    ELSE r

\* except Exception as e: print when debug; return True
CheckExcept(dbg, r) ==
    IF r.ctx.exc
    THEN [ret |-> TRUE,
          ctx |-> DebugPrint(dbg, Caught(r.ctx), "Error checking position", -1)]
    ELSE r

\* Variant of is_via_allowed without the early return on an empty cache.
is_via_allowed_unguarded(plan, cache, dbg, ctx, position, via_size, check_edges) ==
    CheckExcept(dbg, CheckPosition(plan, dbg, ctx, cache, position, via_size, check_edges))

\* The whole method.  ctx.exc of the result says an exception reaches the caller.
is_via_allowed(plan, cache, dbg, ctx, position, via_size, check_edges) ==
    IF Len(cache) = 0
    THEN [ret |-> TRUE, ctx |-> ctx]
    ELSE CheckExcept(dbg, CheckPosition(plan, dbg, ctx, cache, position,
                                        via_size, check_edges))

(***************************************************************************)
(* is_via_allowed_at_position                                              *)
(***************************************************************************)
\* if cached_checker is None: cached_checker = KeepOutChecker(board, debug=debug)
CheckerFor(plan, boardOk, supplied, dbgArg) ==
    IF supplied
    THEN [keepout_zones |-> keepout_zones, debug |-> debug, ctx |-> Ctx0]
    ELSE KeepOutChecker(plan, dbgArg, boardOk, Ctx0)

\* Variant of CheckWith that checks the center only.
CheckWithCenterOnly(plan, c, position, via_size) ==
    [zones |-> c.keepout_zones,
     res |-> is_via_allowed(plan, c.keepout_zones, c.debug, c.ctx, position, via_size, FALSE)]

\* return cached_checker.is_via_allowed(position, via_size)
CheckWith(plan, c, position, via_size) ==
    [zones |-> c.keepout_zones,
     res |-> is_via_allowed(plan, c.keepout_zones, c.debug, c.ctx, position, via_size, TRUE)]

is_via_allowed_at_position(plan, boardOk, position, via_size, supplied, dbgArg) ==
    CheckWith(plan, CheckerFor(plan, boardOk, supplied, dbgArg), position, via_size)

(***************************************************************************)
(* Inputs.                                                                 *)
(***************************************************************************)
\* sequences over S of length <= n
BSeq(S, n) == UNION {[1..m -> S] : m \in 0..n}

Coords == (-MaxCoord)..MaxCoord
VecPositions == {Vec(x, y) : x \in Coords, y \in Coords}
\* float positions (h/2, -h/2) off the integer grid: (-1.5, 1.5), (0.5, -0.5), ...
CompatiblePositions == {Compatible(h, -h) : h \in {-(2 * MaxCoord + 1), 1}}
\* the positions tried through the free function
FewPositions == {Vec(MaxCoord, 0), Compatible(1, -1)}
Positions == VecPositions \cup CompatiblePositions
ViaSizes == (-1)..MaxViaSize
Plans == {NoFault} \cup {[at |-> a, sticky |-> s] : a \in 1..MaxFaultAt, s \in BOOLEAN}
OncePlans == {pl \in Plans : ~pl.sticky}
FootprintLists == BSeq(BSeq(ZoneIds, MaxFpZones), MaxFootprints)

\* a host call of the log raised
Raised(log) == \E i \in 1..Len(log) : log[i].out = "raise"

\* the board now; faulted: a host call raised while the constructor scanned it
Snapshot(faulted) ==
    [areas |-> areas, footprints |-> footprints,
     ruleArea |-> ruleArea, noVias |-> noVias, faulted |-> faulted]

\* no call has returned since the caller took the last result
Idle == [op |-> "none", position |-> Vec(0, 0), via_size |-> 0, check_edges |-> FALSE,
         zone |-> 0, supplied |-> FALSE, boardOk |-> TRUE, dbgArg |-> FALSE,
         ret |-> TRUE, count |-> 0, raised |-> FALSE, zones |-> <<>>, log |-> <<>>]

(***************************************************************************)
(* The operations.                                                         *)
(***************************************************************************)
\* checker = KeepOutChecker(board, debug)
Construct(dbg, plan) ==
    /\ ~constructed
    /\ last.op = "none"
    /\ LET c == KeepOutChecker(plan, dbg, TRUE, Ctx0)
       IN  /\ keepout_zones' = c.keepout_zones
           /\ debug' = c.debug
           /\ last' = [Idle EXCEPT !.op = "__init__", !.dbgArg = dbg,
                                   !.raised = c.ctx.exc,
                                   !.zones = c.keepout_zones, !.log = c.ctx.log]
           /\ scanned' = Snapshot(Raised(c.ctx.log))
    /\ constructed' = TRUE
    /\ UNCHANGED <<board, edits>>

\* Variant of IsViaAllowed that collects the zones again before it checks.
IsViaAllowedRefreshing(position, via_size, check_edges, plan) ==
    /\ constructed
    /\ last.op = "none"
    /\ keepout_zones' = collect_keepout_zones(NoFault, debug, TRUE, Ctx0).zones
    /\ LET r == is_via_allowed(plan, keepout_zones', debug, Ctx0,
                               position, via_size, check_edges)
       IN  last' = [Idle EXCEPT !.op = "is_via_allowed", !.position = position,
                                !.via_size = via_size, !.check_edges = check_edges,
                                !.ret = r.ret, !.raised = r.ctx.exc,
                                !.zones = keepout_zones', !.log = r.ctx.log]
    /\ UNCHANGED <<board, constructed, debug, scanned, edits>>

\* checker.is_via_allowed(position, via_size, check_edges)
IsViaAllowed(position, via_size, check_edges, plan) ==
    /\ constructed
    /\ last.op = "none"
    /\ LET r == is_via_allowed(plan, keepout_zones, debug, Ctx0,
                               position, via_size, check_edges)
       IN  last' = [Idle EXCEPT !.op = "is_via_allowed", !.position = position,
                                !.via_size = via_size, !.check_edges = check_edges,
                                !.ret = r.ret, !.raised = r.ctx.exc,
                                !.zones = keepout_zones, !.log = r.ctx.log]
    /\ UNCHANGED <<board, checker, scanned, edits>>

\* checker.get_zone_count()
GetZoneCount ==
    /\ constructed
    /\ last.op = "none"
    /\ last' = [Idle EXCEPT !.op = "get_zone_count", !.count = Len(keepout_zones),
                            !.zones = keepout_zones]
    /\ UNCHANGED <<board, checker, scanned, edits>>

\* checker._is_point_in_zone(zone, point)
IsPointInZone(zone, point, plan) ==
    /\ constructed
    /\ last.op = "none"
    /\ LET r == is_point_in_zone(plan, debug, Ctx0, zone, point, 0, 1)
       IN  last' = [Idle EXCEPT !.op = "_is_point_in_zone", !.zone = zone,
                                !.position = point, !.ret = r.ret,
                                !.raised = r.ctx.exc,
                                !.zones = keepout_zones, !.log = r.ctx.log]
    /\ UNCHANGED <<board, checker, scanned, edits>>

\* is_via_allowed_at_position(board, position, via_size, cached_checker, debug);
\* supplied: cached_checker is the checker, not None; boardOk: board is the board, not None
IsViaAllowedAtPosition(boardOk, position, via_size, supplied, dbgArg, plan) ==
    /\ supplied => constructed
    /\ last.op = "none"
    /\ LET r == is_via_allowed_at_position(plan, boardOk, position, via_size,
                                           supplied, dbgArg)
       IN  last' = [Idle EXCEPT !.op = "is_via_allowed_at_position",
                                !.position = position, !.via_size = via_size,
                                !.check_edges = TRUE, !.supplied = supplied,
                                !.boardOk = boardOk, !.dbgArg = dbgArg,
                                !.ret = r.res.ret, !.raised = r.res.ctx.exc,
                                !.zones = r.zones, !.log = r.res.ctx.log]
    /\ UNCHANGED <<board, checker, scanned, edits>>

\* the caller takes the result ("for each position: if checker.is_via_allowed(...)")
Return ==
    /\ last.op # "none"
    /\ last' = Idle
    /\ UNCHANGED <<board, checker, scanned, edits>>

(***************************************************************************)
(* The host application edits the board between two calls.                 *)
(***************************************************************************)
MayEdit ==
    /\ constructed
    /\ last.op = "none"
    /\ edits < MaxEdits

AddArea(z) ==
    /\ MayEdit
    /\ Len(areas) < MaxAreas
    /\ areas' = Append(areas, z)
    /\ edits' = edits + 1
    /\ UNCHANGED <<footprints, ruleArea, noVias, hasGetModules, checker, scanned, last>>

RemoveArea(i) ==
    /\ MayEdit
    /\ i \in 1..Len(areas)
    /\ areas' = SubSeq(areas, 1, i - 1) \o SubSeq(areas, i + 1, Len(areas))
    /\ edits' = edits + 1
    /\ UNCHANGED <<footprints, ruleArea, noVias, hasGetModules, checker, scanned, last>>

AddFootprint(zs) ==
    /\ MayEdit
    /\ Len(footprints) < MaxFootprints
    /\ footprints' = Append(footprints, zs)
    /\ edits' = edits + 1
    /\ UNCHANGED <<areas, ruleArea, noVias, hasGetModules, checker, scanned, last>>

RemoveFootprint(f) ==
    /\ MayEdit
    /\ f \in 1..Len(footprints)
    /\ footprints' = SubSeq(footprints, 1, f - 1) \o SubSeq(footprints, f + 1, Len(footprints))
    /\ edits' = edits + 1
    /\ UNCHANGED <<areas, ruleArea, noVias, hasGetModules, checker, scanned, last>>

\* zone.SetIsRuleArea(not zone.GetIsRuleArea())
ToggleIsRuleArea(z) ==
    /\ MayEdit
    /\ ruleArea' = IF z \in ruleArea THEN ruleArea \ {z} ELSE ruleArea \cup {z}
    /\ edits' = edits + 1
    /\ UNCHANGED <<areas, footprints, noVias, hasGetModules, checker, scanned, last>>

\* zone.SetDoNotAllowVias(not zone.GetDoNotAllowVias())
ToggleDoNotAllowVias(z) ==
    /\ MayEdit
    /\ noVias' = IF z \in noVias THEN noVias \ {z} ELSE noVias \cup {z}
    /\ edits' = edits + 1
    /\ UNCHANGED <<areas, footprints, ruleArea, hasGetModules, checker, scanned, last>>

(***************************************************************************)
(* Specifications.                                                         *)
(***************************************************************************)
NoChecker ==
    /\ constructed = FALSE
    /\ debug = FALSE
    /\ keepout_zones = <<>>
    /\ scanned = [areas |-> <<>>, footprints |-> <<>>, ruleArea |-> {}, noVias |-> {},
                  faulted |-> FALSE]
    /\ edits = 0
    /\ last = Idle

\* Placement checks: every zone is a keep-out zone, a KiCad 9 board of at most
\* MaxAreas zones, the board is not edited; every position, size and fault plan.
Init ==
    /\ areas \in BSeq(ZoneIds, MaxAreas)
    /\ footprints \in {<<>>} \cup {<< <<3>> >> : x \in {1} \cap 1..(MaxAreas - Len(areas))}
    /\ ruleArea = ZoneIds
    /\ noVias = ZoneIds
    /\ hasGetModules = FALSE
    /\ NoChecker

Next ==
    \/ \E dbg \in BOOLEAN : Construct(dbg, NoFault)
    \/ \E position \in Positions, via_size \in ViaSizes, check_edges \in BOOLEAN,
          plan \in Plans :
            IsViaAllowed(position, via_size, check_edges, plan)
    \/ GetZoneCount
    \/ \E zone \in ZoneIds, point \in Positions, plan \in Plans :
            IsPointInZone(zone, point, plan)
    \/ \E boardOk \in BOOLEAN, position \in FewPositions, via_size \in {0, MaxViaSize},
          supplied \in BOOLEAN, dbgArg \in BOOLEAN, plan \in Plans :
            IsViaAllowedAtPosition(boardOk, position, via_size, supplied, dbgArg, plan)
    \/ Return

Spec == Init /\ [][Next]_vars

\* Zone collection: every board, every flag setting, both host API versions,
\* every fault plan of the constructor.
InitCollect ==
    /\ areas \in BSeq(ZoneIds, MaxAreas)
    /\ footprints \in FootprintLists
    /\ ruleArea \in {ZoneIds, {1}}
    /\ noVias \in {ZoneIds, {1, 2}}
    /\ hasGetModules \in BOOLEAN
    /\ NoChecker

NextCollect ==
    \/ \E dbg \in BOOLEAN, plan \in OncePlans : Construct(dbg, plan)
    \/ GetZoneCount
    \/ Return

SpecCollect == InitCollect /\ [][NextCollect]_vars

\* Board edits after construction, then calls on the stale checker.
InitEdit ==
    /\ areas \in BSeq(ZoneIds, MaxAreas)
    /\ footprints \in {<<>>, << <<3>> >>}
    /\ ruleArea = ZoneIds
    /\ noVias \in {ZoneIds, {1, 2}}
    /\ hasGetModules = FALSE
    /\ NoChecker

NextEdit ==
    \/ \E dbg \in BOOLEAN : Construct(dbg, NoFault)
    \/ \E z \in ZoneIds : AddArea(z)
    \/ \E i \in 1..MaxAreas : RemoveArea(i)
    \/ \E zs \in BSeq(ZoneIds, MaxFpZones) : AddFootprint(zs)
    \/ \E f \in 1..MaxFootprints : RemoveFootprint(f)
    \/ \E z \in ZoneIds : ToggleIsRuleArea(z)
    \/ \E z \in ZoneIds : ToggleDoNotAllowVias(z)
    \/ \E x \in Coords, via_size \in {0, MaxViaSize}, check_edges \in BOOLEAN :
            IsViaAllowed(Vec(x, 0), via_size, check_edges, NoFault)
    \/ GetZoneCount
    \/ \E position \in FewPositions, supplied \in BOOLEAN :
            IsViaAllowedAtPosition(TRUE, position, MaxViaSize, supplied, FALSE, NoFault)
    \/ Return

SpecEdit == InitEdit /\ [][NextEdit]_vars

(***************************************************************************)
(* What the code computes, stated without its control flow.                *)
(***************************************************************************)
\* the filled-area hit tests of a log
HitTests(log) == SelectSeq(log, LAMBDA e : e.op = "HitTestFilledArea")

\* the accessors that enumerate the board
EnumerationOps == {"GetAreaCount", "GetArea", "GetModules", "GetFootprints", "Zones"}
Enumerates(log) == \E i \in 1..Len(log) : log[i].op \in EnumerationOps

\* a raising host call is the last host call of the log
RaiseEndsCalls(log) ==
    \A i \in 1..Len(log) :
        log[i].out = "raise" => \A n \in (i + 1)..Len(log) : log[n].op = "print"

IsPrefix(s, t) == Len(s) <= Len(t) /\ s = SubSeq(t, 1, Len(s))

RECURSIVE FlattenZones(_)
\* the zones of the footprints, footprint after footprint
FlattenZones(fps) ==
    IF fps = <<>> THEN <<>> ELSE Head(fps) \o FlattenZones(Tail(fps))

\* every zone of board b in the order the collection visits them
VisitOrder(b) == b.areas \o FlattenZones(b.footprints)

\* the zones of board b with both flags set, in that order, duplicates kept
KeepoutsOf(b) == SelectSeq(VisitOrder(b), LAMBDA z : z \in b.ruleArea /\ z \in b.noVias)

\* the zone's filled area holds p on a layer of the valid range that the zone occupies
ZoneContains(z, p) ==
    \E l \in LayerIds \cap GetLayerSet(z) : HitTestFilledArea(z, l, p)

\* test point k of a check: 0 the center, 1..NumAngles the edge samples
TestPoint(position, via_size, k) ==
    IF k = 0 THEN ToVECTOR2I(position)
    ELSE <<EdgeX(ToVECTOR2I(position)[1], via_size \div 2, k),
           EdgeY(ToVECTOR2I(position)[2], via_size \div 2, k)>>

\* the test points of a check
TestPointIds(via_size, check_edges) ==
    IF check_edges /\ via_size > 0 THEN 0..NumAngles ELSE {0}

\* some zone of the cache holds some test point
Intrudes(cache, position, via_size, check_edges) ==
    \E k \in TestPointIds(via_size, check_edges), j \in 1..Len(cache) :
        ZoneContains(cache[j], TestPoint(position, via_size, k))

(***************************************************************************)
(* Properties of the placement check (specification Spec).                 *)
(***************************************************************************)
\* C1: with a non-empty cache and no host call raising, is_via_allowed returns
\* False if and only if some cached zone holds a test point: the center alone
\* when check_edges is false or via_size <= 0, the center and the eight edge
\* samples of radius via_size // 2 otherwise.  In every other case it returns True.
C1_DeniedIffIntrusion ==
    (last.op = "is_via_allowed" /\ Len(last.zones) > 0 /\ ~Raised(last.log))
        => (last.ret = ~Intrudes(last.zones, last.position, last.via_size,
                                 last.check_edges))

\* a via with its center outside every zone and an edge sample inside one is denied
C1_EdgeIntrusionDenied ==
    /\ last.op = "is_via_allowed"
    /\ ~Raised(last.log)
    /\ last.check_edges
    /\ ~Intrudes(last.zones, last.position, last.via_size, FALSE)
    /\ Intrudes(last.zones, last.position, last.via_size, TRUE)
    /\ last.ret = FALSE

\* C2: with an empty cache is_via_allowed returns True for every position, size
\* and check_edges, and makes no host call at all (no conversion of the position,
\* no edge point, no layer-set query, no hit test).
C2_EmptyCacheAllows ==
    (last.op = "is_via_allowed" /\ Len(last.zones) = 0)
        => (last.ret = TRUE /\ last.log = <<>> /\ ~last.raised)

\* an empty cache, a position that would need converting, a negative size
C2_EmptyCacheOddInputs ==
    /\ last.op = "is_via_allowed"
    /\ Len(last.zones) = 0
    /\ ~last.position.isVECTOR2I
    /\ last.via_size < 0
    /\ last.check_edges
    /\ last.ret = TRUE

\* a host call of is_via_allowed itself raised: the conversion of the position or
\* the construction of an edge point (cache index 0: not inside a point test)
RaisedOutsidePointTest(log) ==
    \E i \in 1..Len(log) :
        log[i].out = "raise" /\ log[i].op = "VECTOR2I" /\ log[i].j = 0

\* C3: no exception of a host call reaches the caller of the constructor,
\* is_via_allowed, get_zone_count, the point test or is_via_allowed_at_position;
\* and when a host call of is_via_allowed outside the per-point test raises, the
\* call returns True.
C3_NothingPropagates ==
    /\ ~last.raised
    /\ (last.op \in {"is_via_allowed", "is_via_allowed_at_position"}
            /\ RaisedOutsidePointTest(last.log))
        => last.ret = TRUE

\* the construction of an edge point raised, and the via is allowed although a
\* zone holds one of its test points
C3_EdgePointRaiseAllows ==
    /\ last.op = "is_via_allowed"
    /\ \E i \in 1..Len(last.log) :
          /\ last.log[i].out = "raise"
          /\ last.log[i].op = "VECTOR2I"
          /\ last.log[i].j = 0
          /\ last.log[i].k >= 1
    /\ Intrudes(last.zones, last.position, last.via_size, last.check_edges)
    /\ last.ret = TRUE

\* C8: a filled-area hit test is made on layer L of a zone only if L is in the
\* zone's layer set (and in the valid layer range); with no host call raising,
\* the point test returns True exactly when the zone holds the point on such a layer.
C8_OnlyOccupiedLayers ==
    /\ \A i \in 1..Len(last.log) :
          last.log[i].op = "HitTestFilledArea"
              => last.log[i].l \in LayerIds \cap GetLayerSet(last.log[i].z)
    /\ (last.op = "_is_point_in_zone" /\ ~Raised(last.log))
          => (last.ret = ZoneContains(last.zone, ToVECTOR2I(last.position)))

\* a zone whose filled area would report the point on a layer it does not occupy,
\* and on no layer it occupies: the point test returns False
C8_OtherLayerIgnored ==
    /\ last.op = "_is_point_in_zone"
    /\ ~Raised(last.log)
    /\ \E m \in LayerIds \ GetLayerSet(last.zone) :
          HitTestFilledArea(last.zone, m, ToVECTOR2I(last.position))
    /\ last.ret = FALSE

\* the point test (test point k, cache index j) in which log entry i was made is
\* left at entry i: no later host call belongs to it
TestLeftAt(log, i) ==
    \A n \in (i + 1)..Len(log) :
        log[n].op # "print" => <<log[n].k, log[n].j>> # <<log[i].k, log[i].j>>

\* the check goes on after entry i, unless entry i belongs to its last point test
GoesOnAfter(log, i, cache, via_size, check_edges) ==
    \/ \E n \in (i + 1)..Len(log) : log[n].op # "print"
    \/ /\ log[i].j = Len(cache)
       /\ \A k \in TestPointIds(via_size, check_edges) : k <= log[i].k

\* C9: a host call raising inside the point test of zone Z for point p makes
\* that test return False: nothing propagates, no later layer of Z is asked for
\* p; is_via_allowed goes on with the remaining zones and test points.
C9_PointTestFailsOpen ==
    /\ (last.op = "_is_point_in_zone" /\ Raised(last.log))
          => (last.ret = FALSE /\ ~last.raised /\ RaiseEndsCalls(last.log))
    /\ last.op = "is_via_allowed"
          => \A i \in 1..Len(last.log) :
                (last.log[i].out = "raise" /\ last.log[i].j >= 1)
                    => /\ TestLeftAt(last.log, i)
                       /\ GoesOnAfter(last.log, i, last.zones, last.via_size,
                                      last.check_edges)

\* the hit test of a zone raised on a layer, a later layer of that zone holds the
\* point, and the via is denied all the same by a later test
C9_DeniedAfterRaise ==
    /\ last.op = "is_via_allowed"
    /\ last.ret = FALSE
    /\ \E i \in 1..Len(last.log) :
          /\ last.log[i].out = "raise"
          /\ last.log[i].op = "HitTestFilledArea"
          /\ \E l \in LayerIds \cap GetLayerSet(last.log[i].z) :
                l > last.log[i].l /\ HitTestFilledArea(last.log[i].z, l, last.log[i].p)

\* hit test a comes before hit test b: by test point, then zone, then layer
Earlier(a, b) ==
    \/ a.k < b.k
    \/ a.k = b.k /\ a.j < b.j
    \/ a.k = b.k /\ a.j = b.j /\ a.l < b.l

\* C10: the hit tests of one is_via_allowed call are made in a fixed order: the
\* center, then the edge samples by angle; for each point the zones in cache
\* order; for each zone the layers in ascending order.  No host call follows a
\* hit test that reports a hit.  There are at most 9 x zones x layers hit tests,
\* and at most 1 x zones x layers when the edge is not sampled.
C10_OrderedAndBounded ==
    last.op = "is_via_allowed"
        => /\ \A i \in 1..(Len(HitTests(last.log)) - 1) :
                 Earlier(HitTests(last.log)[i], HitTests(last.log)[i + 1])
           /\ \A i \in 1..Len(last.log) :
                 last.log[i].op = "HitTestFilledArea"
                     => /\ last.log[i].k \in TestPointIds(last.via_size, last.check_edges)
                        /\ last.log[i].j \in 1..Len(last.zones)
                        /\ last.log[i].z = last.zones[last.log[i].j]
                        /\ last.log[i].p = TestPoint(last.position, last.via_size,
                                                     last.log[i].k)
                        /\ last.log[i].out = "True" => i = Len(last.log)
           /\ Len(HitTests(last.log))
                 <= Cardinality(TestPointIds(last.via_size, last.check_edges))
                        * Len(last.zones) * PCB_LAYER_ID_COUNT
           /\ Len(HitTests(last.log)) <= 9 * Len(last.zones) * PCB_LAYER_ID_COUNT

\* a check that ends with a hit on an edge sample in the second zone of the cache,
\* after hit tests that reported no hit
C10_StopsAtFirstHit ==
    /\ last.op = "is_via_allowed"
    /\ Len(HitTests(last.log)) >= 4
    /\ last.log[Len(last.log)].op = "HitTestFilledArea"
    /\ last.log[Len(last.log)].out = "True"
    /\ last.log[Len(last.log)].k >= 1
    /\ last.log[Len(last.log)].j >= 2

\* C6: is_via_allowed_at_position scans the board exactly when no checker is
\* supplied; with a checker supplied it uses that checker's cache and debug flag,
\* whatever the board and debug arguments; its result is that of is_via_allowed
\* with check_edges = True on the checker used.
C6_UsesTheChecker ==
    last.op = "is_via_allowed_at_position"
        => /\ Enumerates(last.log) <=> ~last.supplied
           /\ last.supplied
                 => /\ last.zones = keepout_zones
                    /\ (\E i \in 1..Len(last.log) : last.log[i].op = "print") => debug
           /\ (~last.supplied /\ ~Raised(last.log))
                 => last.zones = KeepoutsOf(Snapshot(FALSE))
           /\ ~Raised(last.log)
                 => (last.ret = ~Intrudes(last.zones, last.position, last.via_size, TRUE))
           /\ (Len(last.zones) > 0 /\ RaisedOutsidePointTest(last.log)) => last.ret = TRUE

\* a checker is supplied together with no board and another debug flag: the via
\* is denied for an edge sample by the checker's cache, silently
C6_SuppliedCheckerDecides ==
    /\ last.op = "is_via_allowed_at_position"
    /\ last.supplied
    /\ ~last.boardOk
    /\ last.dbgArg
    /\ ~debug
    /\ last.log # <<>>
    /\ ~Raised(last.log)
    /\ ~Intrudes(last.zones, last.position, last.via_size, FALSE)
    /\ last.ret = FALSE

(***************************************************************************)
(* Properties of the zone collection (specification SpecCollect).          *)
(***************************************************************************)
\* the zones whose flags the collection asked for, in the order it asked
Visited(log) ==
    [i \in 1..Len(SelectSeq(log, LAMBDA e : e.op = "GetIsRuleArea"))
        |-> SelectSeq(log, LAMBDA e : e.op = "GetIsRuleArea")[i].z]

\* the zones the collection appended: both flags were answered True
Appended(log) ==
    [i \in 1..Len(SelectSeq(log, LAMBDA e : e.op = "GetDoNotAllowVias" /\ e.out = "True"))
        |-> SelectSeq(log, LAMBDA e : e.op = "GetDoNotAllowVias" /\ e.out = "True")[i].z]

C5_CacheIsFrozen ==
    /\ [][constructed => (constructed' /\ keepout_zones' = keepout_zones
                                       /\ debug' = debug)]_vars
    /\ [](last.op \in {"is_via_allowed", "get_zone_count"}
            => /\ ~Enumerates(last.log)
               /\ keepout_zones = KeepoutsOf(scanned))
    /\ [](last.op = "is_via_allowed"
            => last.ret = ~Intrudes(KeepoutsOf(scanned), last.position, last.via_size,
                                    last.check_edges))
    /\ [](last.op = "get_zone_count" => last.count = Len(KeepoutsOf(scanned)))

\* the board was edited, and the check answers otherwise than a checker
\* constructed now would
C5_StaleAnswer ==
    /\ edits > 0
    /\ last.op = "is_via_allowed"
    /\ last.ret # ~Intrudes(KeepoutsOf(Snapshot(FALSE)), last.position, last.via_size,
                            last.check_edges)

====
